---- MODULE Spec2Model ----
(***************************************************************************)
(* A model of src/src/document.js (class Document of the Ace editor).       *)
(*                                                                         *)
(* A string is a sequence of one-character tokens.  The tokens "CR" and    *)
(* "LF" stand for the characters \r and \n; every other token is an        *)
(* ordinary character.  $lines is a sequence of strings.  A position is a  *)
(* record [row, column] with zero-based integers, as in the source.        *)
(***************************************************************************)
EXTENDS Integers, Sequences, FiniteSets, TLC

(***************************************************************************)
(* Bounds of the model.                                                    *)
(***************************************************************************)
\* largest number of rows a document of the model may have
MaxRows == 3
\* largest number of characters a document of the model may hold in total
MaxChars == 2
\* largest number of tokens of a text handed to the constructor
MaxTextLen == 4
\* largest number of tokens of a text handed to insert, replace or setValue
MaxEditLen == 2
\* largest number of deltas in a list handed to applyDeltas
MaxDeltas == 2

\* the chunking threshold of applyDelta (20000 in the source), scaled down
MAX == 2

Alphabet == {"a", "b"}
CR == "CR"
LF == "LF"
Tokens == Alphabet \cup {CR, LF}

(***************************************************************************)
(* JavaScript primitives used by the source.                               *)
(***************************************************************************)
Min(a, b) == IF a < b THEN a ELSE b
Max(a, b) == IF a > b THEN a ELSE b

\* String.prototype.substring(a, b): both indexes clamped to [0, length],
\* swapped when a > b.
Substring(s, a, b) ==
    LET ca == Min(Max(a, 0), Len(s))
        cb == Min(Max(b, 0), Len(s))
    IN  SubSeq(s, Min(ca, cb) + 1, Max(ca, cb))

\* String.prototype.substring(a)
SubstringFrom(s, a) == Substring(s, a, Len(s))

\* the index normalisation of Array.prototype.slice and splice
RelIndex(i, len) == IF i < 0 THEN Max(len + i, 0) ELSE Min(i, len)

\* Array.prototype.slice(a, b)
Slice(arr, a, b) ==
    SubSeq(arr, RelIndex(a, Len(arr)) + 1, RelIndex(b, Len(arr)))

\* Array.prototype.slice(a)
SliceFrom(arr, a) == Slice(arr, a, Len(arr))

\* Array.prototype.splice(start, deleteCount, ...items), the array afterwards
Splice(arr, start, deleteCount, items) ==
    LET s == RelIndex(start, Len(arr))
        d == Min(Max(deleteCount, 0), Len(arr) - s)
    IN  SubSeq(arr, 1, s) \o items \o SubSeq(arr, s + d + 1, Len(arr))

\* arr[i] = v for i <= arr.length: i = arr.length appends, and a negative i
\* sets a property that is no element, so the array is unchanged
SetAt(arr, i, v) ==
    IF i < 0 THEN arr
    ELSE IF i < Len(arr) THEN [arr EXCEPT ![i + 1] = v]
    ELSE Append(arr, v)

RECURSIVE Join(_, _)
\* Array.prototype.join(sep) on an array of strings
Join(arr, sep) ==
    IF Len(arr) = 0 THEN <<>>
    ELSE IF Len(arr) = 1 THEN arr[1]
    ELSE arr[1] \o sep \o Join(Tail(arr), sep)

RECURSIVE SplitFrom(_, _)
\* text.split(/\r\n|\r|\n/), with cur the piece being collected
SplitFrom(text, cur) ==
    IF Len(text) = 0 THEN <<cur>>
    ELSE IF Len(text) >= 2 /\ text[1] = CR /\ text[2] = LF
         THEN <<cur>> \o SplitFrom(SubSeq(text, 3, Len(text)), <<>>)
    ELSE IF text[1] = CR \/ text[1] = LF
         THEN <<cur>> \o SplitFrom(Tail(text), <<>>)
    ELSE SplitFrom(Tail(text), Append(cur, text[1]))

\* Document.$split
Split(text) == SplitFrom(text, <<>>)

RECURSIVE FirstNewLine(_)
\* text.match(/^.*?(\r\n|\r|\n)/m): the first newline sequence of text, or
\* the empty sequence when there is no match
FirstNewLine(text) ==
    IF Len(text) = 0 THEN <<>>
    ELSE IF Len(text) >= 2 /\ text[1] = CR /\ text[2] = LF THEN <<CR, LF>>
    ELSE IF text[1] = CR THEN <<CR>>
    ELSE IF text[1] = LF THEN <<LF>>
    ELSE FirstNewLine(Tail(text))

(***************************************************************************)
(* The Range type (range.js) and the splice primitive (apply_delta.js).    *)
(***************************************************************************)
Pos(row, column) == [row |-> row, column |-> column]

\* Range.comparePoints
ComparePoints(p1, p2) ==
    IF p1.row # p2.row THEN p1.row - p2.row ELSE p1.column - p2.column

\* new Range(startRow, startColumn, endRow, endColumn) / Range.fromPoints
Range(sr, sc, er, ec) == [start |-> Pos(sr, sc), end |-> Pos(er, ec)]

\* Range.prototype.isEmpty
IsEmpty(range) ==
    range.start.row = range.end.row /\ range.start.column = range.end.column

\* positionInDocument of the splice primitive
PositionInDocument(docLines, p) ==
    /\ p.row >= 0 /\ p.row < Len(docLines)
    /\ p.column >= 0 /\ p.column <= Len(docLines[p.row + 1])

\* validateDelta of the splice primitive: TRUE when the delta is well formed
\* for docLines
ValidDelta(docLines, delta) ==
    /\ delta.action \in {"insert", "remove"}
    /\ PositionInDocument(docLines, delta.start)
    /\ delta.action = "remove" => PositionInDocument(docLines, delta.end)
    /\ LET numRangeRows == delta.end.row - delta.start.row
           numRangeLastLineChars ==
               delta.end.column
                 - (IF numRangeRows = 0 THEN delta.start.column ELSE 0)
       IN  /\ Len(delta.lines) >= 1
           /\ numRangeRows = Len(delta.lines) - 1
           /\ Len(delta.lines[numRangeRows + 1]) = numRangeLastLineChars

\* docLines[row] || ""
LineOr(docLines, row) ==
    IF row >= 0 /\ row < Len(docLines) THEN docLines[row + 1] ELSE <<>>

\* the splice itself, for -1 <= delta.start.row <= docLines.length:
\* [lines |-> the array afterwards, err |-> whether it raised]
SpliceLines(docLines, delta) ==
    LET row == delta.start.row
        startColumn == delta.start.column
        line == LineOr(docLines, row)
    IN  IF delta.action = "insert"
        THEN IF Len(delta.lines) = 1
             THEN [lines |-> SetAt(docLines, row,
                                   Substring(line, 0, startColumn)
                                     \o delta.lines[1]
                                     \o SubstringFrom(line, startColumn)),
                   err |-> FALSE]
             ELSE LET n == Len(delta.lines)
                      spliced == Splice(docLines, row, 1, delta.lines)
                      first == SetAt(spliced, row,
                                     Substring(line, 0, startColumn)
                                       \o LineOr(spliced, row))
                  IN  [lines |-> SetAt(first, row + n - 1,
                                       LineOr(first, row + n - 1)
                                         \o SubstringFrom(line, startColumn)),
                       err |-> FALSE]
        ELSE LET endColumn == delta.end.column
                 endRow == delta.end.row
             IN  IF row = endRow
                 THEN [lines |-> SetAt(docLines, row,
                                       Substring(line, 0, startColumn)
                                         \o SubstringFrom(line, endColumn)),
                       err |-> FALSE]
                 ELSE IF endRow < 0 \/ endRow >= Len(docLines)
                 THEN [lines |-> docLines, err |-> TRUE]
                 ELSE [lines |-> Splice(docLines, row, endRow - row + 1,
                                        <<Substring(line, 0, startColumn)
                                            \o SubstringFrom(docLines[endRow + 1],
                                                             endColumn)>>),
                       err |-> FALSE]

\* applyDelta(docLines, delta, doNotValidate) of the splice primitive
SpliceDelta(docLines, delta, doNotValidate) ==
    IF ~doNotValidate /\ ~ValidDelta(docLines, delta)
    THEN [lines |-> docLines, err |-> TRUE]
    ELSE SpliceLines(docLines, delta)

(***************************************************************************)
(* The Document.  A call runs on a context c: the fields of the document   *)
(* (lines = $lines, auto = $autoNewLine, mode = $newLineMode), the         *)
(* notifications emitted so far by the call (ev), whether an error is      *)
(* propagating (err), the value returned (ret), after applyDelta the       *)
(* caller's delta object as the call left it (delta), after applyDeltas    *)
(* the caller's list of delta objects as the call left them (deltas), and  *)
(* the number of deltas $safeApplyDelta discarded (stale).  Two            *)
(* subscribers to "change" are registered in this order: the first applies *)
(* the next of the deltas it has in store (reactions) from inside its      *)
(* handler, the second records the deltas in the order it receives them    *)
(* (received).                                                             *)
(***************************************************************************)
NoValue == <<>>

Ctx(lines, auto, mode) ==
    [lines |-> lines, auto |-> auto, mode |-> mode,
     ev |-> <<>>, err |-> FALSE, ret |-> NoValue, delta |-> NoValue,
     deltas |-> <<>>, stale |-> 0, reactions |-> <<>>, received |-> <<>>]

\* a "change" notification: the delta it carries, the lines before the splice
\* and the lines a subscriber reads while it is delivered
ChangeEvent(delta, before, seen) ==
    [type |-> "change", delta |-> delta, before |-> before, seen |-> seen]

ModeEvent == [type |-> "changeNewLineMode"]

\* Document.getNewLineCharacter
GetNewLineCharacter(c) ==
    CASE c.mode = "windows" -> <<CR, LF>>
      [] c.mode = "unix" -> <<LF>>
      [] OTHER -> IF c.auto # <<>> THEN c.auto ELSE <<LF>>

\* Document.getLength
GetLength(lines) == Len(lines)

\* Document.getLine
GetLine(lines, row) == LineOr(lines, row)

\* Document.getLines
GetLines(lines, firstRow, lastRow) == Slice(lines, firstRow, lastRow + 1)

\* Document.getAllLines
GetAllLines(lines) == GetLines(lines, 0, GetLength(lines))

\* Document.getValue
GetValue(c) == Join(GetAllLines(c.lines), GetNewLineCharacter(c))

\* Document.getLinesForRange
GetLinesForRange(lines, range) ==
    IF range.start.row = range.end.row
    THEN <<Substring(GetLine(lines, range.start.row),
                     range.start.column, range.end.column)>>
    ELSE LET got == GetLines(lines, range.start.row, range.end.row)
             ls == SetAt(got, 0,
                         SubstringFrom(IF Len(got) > 0 THEN got[1] ELSE <<>>,
                                       range.start.column))
             l == Len(ls) - 1
         IN  IF range.end.row - range.start.row = l
             THEN [ls EXCEPT ![l + 1] = Substring(@, 0, range.end.column)]
             ELSE ls

\* Document.getTextRange
GetTextRange(c, range) ==
    Join(GetLinesForRange(c.lines, range), GetNewLineCharacter(c))

\* clippedPos that keeps the column given with a row past the last
ClippedPosKeepColumn(lines, rowOpt, columnOpt) ==
    LET length == GetLength(lines)
        row == IF rowOpt = <<>> THEN length
               ELSE IF rowOpt[1] < 0 THEN 0
               ELSE IF rowOpt[1] >= length THEN length - 1
               ELSE rowOpt[1]
        line == GetLine(lines, row)
        column == IF columnOpt = <<>> THEN Len(line) ELSE columnOpt[1]
    IN  Pos(row, Min(Max(column, 0), Len(line)))

\* Document.clippedPos with optional arguments: <<>> is undefined, <<v>> is v
ClippedPosOpt(lines, rowOpt, columnOpt) ==
    LET length == GetLength(lines)
        row == IF rowOpt = <<>> THEN length
               ELSE IF rowOpt[1] < 0 THEN 0
               ELSE IF rowOpt[1] >= length THEN length - 1
               ELSE rowOpt[1]
        colOpt == IF rowOpt # <<>> /\ rowOpt[1] >= length THEN <<>>
                  ELSE columnOpt
        line == GetLine(lines, row)
        column == IF colOpt = <<>> THEN Len(line) ELSE colOpt[1]
    IN  Pos(row, Min(Max(column, 0), Len(line)))

\* Document.clippedPos(row, column)
ClippedPos(lines, row, column) == ClippedPosOpt(lines, <<row>>, <<column>>)

RECURSIVE IndexToPositionFrom(_, _, _, _)
\* the for loop and the final return of Document.indexToPosition
IndexToPositionFrom(lines, newlineLength, index, i) ==
    LET l == Len(lines)
    IN  IF i < l
        THEN LET index2 == index - (Len(lines[i + 1]) + newlineLength)
             IN  IF index2 < 0
                 THEN Pos(i, index2 + Len(lines[i + 1]) + newlineLength)
                 ELSE IndexToPositionFrom(lines, newlineLength, index2, i + 1)
        ELSE Pos(l - 1, index + Len(lines[l]) + newlineLength)

\* Document.indexToPosition(index, startRow); startRow 0 when not given
IndexToPosition(c, index, startRow) ==
    IndexToPositionFrom(c.lines, Len(GetNewLineCharacter(c)), index, startRow)

RECURSIVE PositionToIndexFrom(_, _, _, _, _)
\* the for loop of Document.positionToIndex
PositionToIndexFrom(lines, newlineLength, index, i, row) ==
    IF i < row
    THEN PositionToIndexFrom(lines, newlineLength,
                             index + Len(lines[i + 1]) + newlineLength,
                             i + 1, row)
    ELSE index

\* positionToIndex that counts every newline as one character
PositionToIndexOneChar(c, pos, startRow) ==
    PositionToIndexFrom(c.lines, 1, 0, startRow, Min(pos.row, Len(c.lines)))
      + pos.column

\* Document.positionToIndex(pos, startRow); startRow 0 when not given
PositionToIndex(c, pos, startRow) ==
    PositionToIndexFrom(c.lines, Len(GetNewLineCharacter(c)), 0, startRow,
                        Min(pos.row, Len(c.lines)))
      + pos.column

\* $detectNewLine that ignores the text and always settles on \n
DetectNewLineLF(c, text) ==
    [c EXCEPT !.auto = <<LF>>, !.ev = Append(@, ModeEvent)]

\* Document.$detectNewLine
DetectNewLine(c, text) ==
    LET match == FirstNewLine(text)
    IN  [c EXCEPT !.auto = IF match # <<>> THEN match ELSE <<LF>>,
                  !.ev = Append(@, ModeEvent)]

\* Document.setNewLineMode
SetNewLineMode(c, newLineMode) ==
    IF c.mode = newLineMode THEN c
    ELSE [c EXCEPT !.mode = newLineMode, !.ev = Append(@, ModeEvent)]

\* the no-op guard without its remove case
IsNoopInsertOnly(delta) ==
    /\ delta.action = "insert"
    /\ Len(delta.lines) <= 1 /\ (Len(delta.lines) = 0 \/ delta.lines[1] = <<>>)

\* the no-op guard of Document.applyDelta
IsNoop(delta) ==
    IF delta.action = "insert"
    THEN Len(delta.lines) <= 1 /\ (Len(delta.lines) = 0 \/ delta.lines[1] = <<>>)
    ELSE ComparePoints(delta.start, delta.end) = 0

RECURSIVE ApplyDelta(_, _, _)

\* this._signal("change", delta): the handlers run one after the other, in
\* the order of registration, before _signal returns; an error raised in a
\* handler propagates
Signal(c, delta) ==
    LET first == IF c.reactions = <<>> THEN c
                 ELSE ApplyDelta([c EXCEPT !.reactions = Tail(@)],
                                 Head(c.reactions), FALSE)
    IN  IF first.err THEN first
        ELSE [first EXCEPT !.received = Append(@, delta)]

\* the last branch of applyDelta with the two statements swapped: the
\* subscribers are signalled before the splice
SignalBeforeSplice(c, delta, doNotValidate) ==
    LET r == SpliceDelta(c.lines, delta, doNotValidate)
    IN  IF r.err THEN [c EXCEPT !.err = TRUE, !.delta = delta]
        ELSE [c EXCEPT !.lines = r.lines,
                       !.ev = Append(@, ChangeEvent(delta, c.lines, c.lines)),
                       !.delta = delta]

\* the last branch of Document.applyDelta: splice, then signal "change"
SpliceAndSignal(c, delta, doNotValidate) ==
    LET r == SpliceDelta(c.lines, delta, doNotValidate)
    IN  IF r.err THEN [c EXCEPT !.err = TRUE, !.delta = delta]
        ELSE LET spliced ==
                   [c EXCEPT !.lines = r.lines,
                             !.ev = Append(@, ChangeEvent(delta, c.lines,
                                                          r.lines))]
             IN  [Signal(spliced, delta) EXCEPT !.delta = delta]

RECURSIVE SplitLoop(_, _, _, _, _, _, _, _, _)

\* the for loop without "column = 0": every window starts at the column of
\* the first
SplitLoopKeepColumn(c, lines, row, column, from, to, l, max, action) ==
    IF ~(from < l) THEN [c |-> c, from |-> from, column |-> column]
    ELSE LET to2 == to + max - 1
             chunk == Append(Slice(lines, from, to2), <<>>)
             c2 == ApplyDelta(c, [start |-> Pos(row + from, column),
                                  end |-> Pos(row + to2, 0),
                                  action |-> action,
                                  lines |-> chunk], TRUE)
         IN  SplitLoop(c2, lines, row, column, to2, to2, l, max, action)

\* the for loop of Document.$splitAndapplyLargeDelta
SplitLoop(c, lines, row, column, from, to, l, max, action) ==
    IF ~(from < l) THEN [c |-> c, from |-> from, column |-> column]
    ELSE LET to2 == to + max - 1
             chunk == Append(Slice(lines, from, to2), <<>>)
             c2 == ApplyDelta(c, [start |-> Pos(row + from, column),
                                  end |-> Pos(row + to2, 0),
                                  action |-> action,
                                  lines |-> chunk], TRUE)
         IN  SplitLoop(c2, lines, row, 0, to2, to2, l, max, action)

\* $splitAndapplyLargeDelta whose remaining delta starts at the column of the
\* original delta
SplitTailKeepsColumn(c, delta, max) ==
    LET lines == delta.lines
        l == Len(lines) - max + 1
        row == delta.start.row
        column == delta.start.column
        loop == SplitLoop(c, lines, row, column, 0, 0, l, max, delta.action)
        rest == [delta EXCEPT !.lines = SliceFrom(lines, loop.from),
                              !.start = Pos(row + loop.from, column)]
    IN  ApplyDelta(loop.c, rest, TRUE)

\* Document.$splitAndapplyLargeDelta
SplitAndApplyLargeDelta(c, delta, max) ==
    LET lines == delta.lines
        l == Len(lines) - max + 1
        row == delta.start.row
        column == delta.start.column
        loop == SplitLoop(c, lines, row, column, 0, 0, l, max, delta.action)
        rest == [delta EXCEPT !.lines = SliceFrom(lines, loop.from),
                              !.start = Pos(row + loop.from, loop.column)]
    IN  ApplyDelta(loop.c, rest, TRUE)

\* Document.applyDelta
ApplyDelta(c, delta, doNotValidate) ==
    IF c.err THEN c
    ELSE IF IsNoop(delta) THEN [c EXCEPT !.delta = delta]
    ELSE IF delta.action = "insert" /\ Len(delta.lines) > MAX
    THEN SplitAndApplyLargeDelta(c, delta, MAX)
    ELSE SpliceAndSignal(c, delta, doNotValidate)

\* $safeApplyDelta that checks the start row of a remove and not its end row
SafeApplyDeltaStartOnly(c, delta) ==
    LET docLength == Len(c.lines)
    IN  IF \/ delta.action = "remove" /\ delta.start.row < docLength
           \/ delta.action = "insert" /\ delta.start.row <= docLength
        THEN ApplyDelta(c, delta, FALSE)
        ELSE [c EXCEPT !.stale = @ + 1]

\* Document.$safeApplyDelta
SafeApplyDelta(c, delta) ==
    LET docLength == Len(c.lines)
    IN  IF \/ delta.action = "remove" /\ delta.start.row < docLength
                                      /\ delta.end.row < docLength
           \/ delta.action = "insert" /\ delta.start.row <= docLength
        THEN ApplyDelta(c, delta, FALSE)
        ELSE [c EXCEPT !.stale = @ + 1]

\* Document.revertDelta
RevertDelta(c, delta) ==
    IF c.err THEN c
    ELSE SafeApplyDelta(c, [start |-> delta.start, end |-> delta.end,
                            action |-> IF delta.action = "insert"
                                       THEN "remove" ELSE "insert",
                            lines |-> delta.lines])

RECURSIVE ApplyDeltasFrom(_, _, _)
\* the loop of Document.applyDeltas from index i (zero-based)
ApplyDeltasFrom(c, deltas, i) ==
    IF ~(i < Len(deltas)) \/ c.err THEN c
    ELSE LET r == ApplyDelta(c, deltas[i + 1], FALSE)
         IN  ApplyDeltasFrom([r EXCEPT !.deltas = Append(@, r.delta)],
                             deltas, i + 1)

\* Document.applyDeltas
ApplyDeltas(c, deltas) == ApplyDeltasFrom(c, deltas, 0)

RECURSIVE RevertDeltasFrom(_, _, _)
\* the loop of Document.revertDeltas from index i down to 0
RevertDeltasFrom(c, deltas, i) ==
    IF ~(i >= 0) \/ c.err THEN c
    ELSE RevertDeltasFrom(RevertDelta(c, deltas[i + 1]), deltas, i - 1)

\* Document.revertDeltas
RevertDeltas(c, deltas) == RevertDeltasFrom(c, deltas, Len(deltas) - 1)

\* Document.insertMergedLines
\* insertMergedLines that adds the start column to the end column also for
\* several lines
InsertMergedLinesEndColumn(c, position, lines) ==
    IF c.err THEN c
    ELSE LET start == ClippedPos(c.lines, position.row, position.column)
             end == Pos(start.row + Len(lines) - 1,
                        start.column + Len(lines[Len(lines)]))
             r == ApplyDelta(c, [start |-> start, end |-> end,
                                 action |-> "insert", lines |-> lines], FALSE)
         IN  IF r.err THEN r ELSE [r EXCEPT !.ret = end]

InsertMergedLines(c, position, lines) ==
    IF c.err THEN c
    ELSE LET start == ClippedPos(c.lines, position.row, position.column)
             end == Pos(start.row + Len(lines) - 1,
                        (IF Len(lines) = 1 THEN start.column ELSE 0)
                          + Len(lines[Len(lines)]))
             r == ApplyDelta(c, [start |-> start, end |-> end,
                                 action |-> "insert", lines |-> lines], FALSE)
         IN  IF r.err THEN r ELSE [r EXCEPT !.ret = end]

\* insert that detects the newline sequence whatever the number of lines
InsertAlwaysDetects(c, position, text) ==
    IF c.err THEN c
    ELSE InsertMergedLines(DetectNewLine(c, text), position, Split(text))

\* Document.insert
Insert(c, position, text) ==
    IF c.err THEN c
    ELSE InsertMergedLines(IF GetLength(c.lines) <= 1
                           THEN DetectNewLine(c, text) ELSE c,
                           position, Split(text))

\* Document.insertInLine
InsertInLine(c, position, text) ==
    IF c.err THEN c
    ELSE LET start == ClippedPos(c.lines, position.row, position.column)
             end == Pos(position.row, position.column + Len(text))
             r == ApplyDelta(c, [start |-> start, end |-> end,
                                 action |-> "insert", lines |-> <<text>>], TRUE)
         IN  IF r.err THEN r ELSE [r EXCEPT !.ret = end]

\* insertFullLines that treats one past the last row like an existing row
InsertFullLinesAlwaysBefore(c, row0, lines0) ==
    IF c.err THEN c
    ELSE LET row == Min(Max(row0, 0), GetLength(c.lines))
             r == InsertMergedLines(c, Pos(row, 0), lines0 \o <<<<>>>>)
         IN  IF r.err THEN r ELSE [r EXCEPT !.ret = NoValue]

\* Document.insertFullLines
InsertFullLines(c, row0, lines0) ==
    IF c.err THEN c
    ELSE LET row == Min(Max(row0, 0), GetLength(c.lines))
             before == row < GetLength(c.lines)
             lines == IF before THEN lines0 \o <<<<>>>> ELSE <<<<>>>> \o lines0
             row2 == IF before THEN row ELSE row - 1
             column == IF before THEN 0 ELSE Len(c.lines[row2 + 1])
             r == InsertMergedLines(c, Pos(row2, column), lines)
         IN  IF r.err THEN r ELSE [r EXCEPT !.ret = NoValue]

\* Document.insertLines (deprecated): warns on the console and returns
\* insertFullLines(row, lines)
InsertLines(c, row, lines) == InsertFullLines(c, row, lines)

\* Document.insertNewLine (deprecated): warns on the console and returns
\* insertMergedLines(position, ["", ""])
InsertNewLine(c, position) == InsertMergedLines(c, position, <<<<>>, <<>>>>)

\* remove that reads the removed lines with the range as given, not clipped
RemoveUnclippedLines(c, range) ==
    IF c.err THEN c
    ELSE LET start == ClippedPos(c.lines, range.start.row, range.start.column)
             end == ClippedPos(c.lines, range.end.row, range.end.column)
             r == ApplyDelta(c, [start |-> start, end |-> end,
                                 action |-> "remove",
                                 lines |-> GetLinesForRange(c.lines, range)],
                             FALSE)
         IN  IF r.err THEN r ELSE [r EXCEPT !.ret = start]

\* Document.remove
Remove(c, range) ==
    IF c.err THEN c
    ELSE LET start == ClippedPos(c.lines, range.start.row, range.start.column)
             end == ClippedPos(c.lines, range.end.row, range.end.column)
             r == ApplyDelta(c, [start |-> start, end |-> end,
                                 action |-> "remove",
                                 lines |-> GetLinesForRange(c.lines,
                                             [start |-> start, end |-> end])],
                             FALSE)
         IN  IF r.err THEN r ELSE [r EXCEPT !.ret = start]

\* Document.removeInLine
RemoveInLine(c, row, startColumn, endColumn) ==
    IF c.err THEN c
    ELSE LET start == ClippedPos(c.lines, row, startColumn)
             end == ClippedPos(c.lines, row, endColumn)
             r == ApplyDelta(c, [start |-> start, end |-> end,
                                 action |-> "remove",
                                 lines |-> GetLinesForRange(c.lines,
                                             [start |-> start, end |-> end])],
                             TRUE)
         IN  IF r.err THEN r ELSE [r EXCEPT !.ret = start]

\* removeFullLines that never deletes the newline before the first row
RemoveFullLinesLastNewLine(c, firstRow0, lastRow0) ==
    IF c.err THEN c
    ELSE LET length == GetLength(c.lines)
             firstRow == Min(Max(0, firstRow0), length - 1)
             lastRow == Min(Max(0, lastRow0), length - 1)
             deleteLastNewLine == lastRow < length - 1
             endRow == IF deleteLastNewLine THEN lastRow + 1 ELSE lastRow
             endCol == IF deleteLastNewLine
                       THEN 0 ELSE Len(GetLine(c.lines, endRow))
             range == Range(firstRow, 0, endRow, endCol)
             deletedLines == Slice(c.lines, firstRow, lastRow + 1)
             r == ApplyDelta(c, [start |-> range.start, end |-> range.end,
                                 action |-> "remove",
                                 lines |-> GetLinesForRange(c.lines, range)],
                             FALSE)
         IN  IF r.err THEN r ELSE [r EXCEPT !.ret = deletedLines]

\* Document.removeFullLines
RemoveFullLines(c, firstRow0, lastRow0) ==
    IF c.err THEN c
    ELSE LET length == GetLength(c.lines)
             firstRow == Min(Max(0, firstRow0), length - 1)
             lastRow == Min(Max(0, lastRow0), length - 1)
             deleteFirstNewLine == lastRow = length - 1 /\ firstRow > 0
             deleteLastNewLine == lastRow < length - 1
             startRow == IF deleteFirstNewLine THEN firstRow - 1 ELSE firstRow
             startCol == IF deleteFirstNewLine
                         THEN Len(GetLine(c.lines, startRow)) ELSE 0
             endRow == IF deleteLastNewLine THEN lastRow + 1 ELSE lastRow
             endCol == IF deleteLastNewLine
                       THEN 0 ELSE Len(GetLine(c.lines, endRow))
             range == Range(startRow, startCol, endRow, endCol)
             deletedLines == Slice(c.lines, firstRow, lastRow + 1)
             r == ApplyDelta(c, [start |-> range.start, end |-> range.end,
                                 action |-> "remove",
                                 lines |-> GetLinesForRange(c.lines, range)],
                             FALSE)
         IN  IF r.err THEN r ELSE [r EXCEPT !.ret = deletedLines]

\* Document.removeLines (deprecated): warns on the console and returns
\* removeFullLines(firstRow, lastRow)
RemoveLines(c, firstRow, lastRow) == RemoveFullLines(c, firstRow, lastRow)

\* Document.removeNewLine
RemoveNewLine(c, row) ==
    IF c.err THEN c
    ELSE IF row < GetLength(c.lines) - 1 /\ row >= 0
    THEN LET r == ApplyDelta(c, [start |-> Pos(row, Len(GetLine(c.lines, row))),
                                 end |-> Pos(row + 1, 0),
                                 action |-> "remove",
                                 lines |-> <<<<>>, <<>>>>], FALSE)
         IN  IF r.err THEN r ELSE [r EXCEPT !.ret = NoValue]
    ELSE [c EXCEPT !.ret = NoValue]

\* replace that inserts the text at the end of the range
ReplaceInsertAtEnd(c, range, text) ==
    IF c.err THEN c
    ELSE IF Len(text) = 0 /\ IsEmpty(range) THEN [c EXCEPT !.ret = range.start]
    ELSE IF text = GetTextRange(c, range) THEN [c EXCEPT !.ret = range.end]
    ELSE LET removed == Remove(c, range)
             r == IF text # <<>> THEN Insert(removed, range.end, text)
                  ELSE [removed EXCEPT !.ret = range.start]
         IN  r

\* replace without the shortcut for a text equal to the range's content
ReplaceNoShortcut(c, range, text) ==
    IF c.err THEN c
    ELSE IF Len(text) = 0 /\ IsEmpty(range) THEN [c EXCEPT !.ret = range.start]
    ELSE LET removed == Remove(c, range)
             r == IF text # <<>> THEN Insert(removed, range.start, text)
                  ELSE [removed EXCEPT !.ret = range.start]
         IN  r

\* Document.replace
Replace(c, range, text) ==
    IF c.err THEN c
    ELSE IF Len(text) = 0 /\ IsEmpty(range) THEN [c EXCEPT !.ret = range.start]
    ELSE IF text = GetTextRange(c, range) THEN [c EXCEPT !.ret = range.end]
    ELSE LET removed == Remove(c, range)
             r == IF text # <<>> THEN Insert(removed, range.start, text)
                  ELSE [removed EXCEPT !.ret = range.start]
         IN  r

\* Document.setValue
SetValue(c, text) ==
    IF c.err THEN c
    ELSE LET len == GetLength(c.lines) - 1
             removed == Remove(c, Range(0, 0, len, Len(GetLine(c.lines, len))))
             r == Insert(removed, Pos(0, 0), text)
         IN  IF r.err THEN r ELSE [r EXCEPT !.ret = NoValue]

\* the constructor without the line an empty document must have
ConstructorNoLine(textOrLines, isArray) ==
    LET c == Ctx(<<<<>>>>, <<>>, "auto")
        r == IF Len(textOrLines) = 0 THEN [c EXCEPT !.lines = <<>>]
             ELSE IF isArray THEN InsertMergedLines(c, Pos(0, 0), textOrLines)
             ELSE Insert(c, Pos(0, 0), textOrLines)
    IN  [r EXCEPT !.ret = NoValue]

\* Document.constructor(textOrLines); isArray tells a line array from a text
Constructor(textOrLines, isArray) ==
    LET c == Ctx(<<<<>>>>, <<>>, "auto")
        r == IF Len(textOrLines) = 0 THEN c
             ELSE IF isArray THEN InsertMergedLines(c, Pos(0, 0), textOrLines)
             ELSE Insert(c, Pos(0, 0), textOrLines)
    IN  [r EXCEPT !.ret = NoValue]

(***************************************************************************)
(* The state machine.  lines, autoNewLine and newLineMode are the fields   *)
(* of the Document.  The other variables hold what the caller and the      *)
(* subscribers observe of the last public call: the call and its arguments *)
(* (call), the fields before it (pre), the notifications it emitted in     *)
(* order (events), its return value (ret), whether it raised (threw), how  *)
(* many deltas $safeApplyDelta discarded (stale) and the delta objects the *)
(* caller holds after it (held).  pc is "returned" right after a call and  *)
(* "idle" once the caller has dropped these observations.                  *)
(***************************************************************************)
VARIABLES lines, autoNewLine, newLineMode, pc, call, pre, events, result,
          threw, stale, held

vars == <<lines, autoNewLine, newLineMode, pc, call, pre, events, result,
          threw, stale, held>>

\* the value the last call returned; result files it under the call's name
ret == result[call.name]

RECURSIVE CharCount(_)
CharCount(ls) == IF Len(ls) = 0 THEN 0 ELSE Len(ls[1]) + CharCount(Tail(ls))

RECURSIVE Longest(_)
Longest(ls) == IF Len(ls) = 0 THEN 0 ELSE Max(Len(ls[1]), Longest(Tail(ls)))

\* the documents the model explores
InBounds(ls) == Len(ls) <= MaxRows /\ CharCount(ls) <= MaxChars

\* strings of ordinary characters
Strings(n) == UNION {[1..k -> Alphabet] : k \in 0..n}

\* texts of at most n tokens over the characters chars
TextsOver(chars, n) == UNION {[1..k -> chars] : k \in 0..n}

\* texts whose only newline character is \n, and texts with \r as well
LfTexts(n) == TextsOver(Alphabet \cup {LF}, n)
AllTexts(n) == TextsOver(Tokens, n)

\* non-empty line arrays that fit a document
LineLists ==
    {ls \in UNION {[1..k -> Strings(MaxChars)] : k \in 1..MaxRows} :
        CharCount(ls) <= MaxChars}

\* the inputs that can be added to the current document within the bounds
Room == MaxChars - CharCount(lines)
FittingLines == {ls \in LineLists : CharCount(ls) <= Room}
Fitting(texts) == {t \in texts : CharCount(Split(t)) <= Room}

\* integer rows and columns: from one before the first to one past the last
Rows == -1 .. Len(lines)
Cols == -1 .. (Longest(lines) + 1)
Positions == {Pos(r, c) : r \in Rows, c \in Cols}
Ranges == {[start |-> s, end |-> e] : s \in Positions, e \in Positions}

\* the end of an insert of ls at start, as Document.insertMergedLines sets it
EndOf(start, ls) ==
    Pos(start.row + Len(ls) - 1,
        (IF Len(ls) = 1 THEN start.column ELSE 0) + Len(ls[Len(ls)]))

\* insert deltas, well formed or with an end that does not match the lines
InsertDeltas ==
    UNION {{[start |-> s, end |-> EndOf(s, ls),
             action |-> "insert", lines |-> ls],
            [start |-> s, end |-> Pos(EndOf(s, ls).row, EndOf(s, ls).column + 1),
             action |-> "insert", lines |-> ls]} :
              <<s, ls>> \in Positions \X FittingLines}

\* remove deltas between any two positions, holding the content between them
RemoveDeltas ==
    {[start |-> rg.start, end |-> rg.end, action |-> "remove",
      lines |-> GetLinesForRange(lines, rg)] : rg \in Ranges}

Deltas == InsertDeltas \cup RemoveDeltas

\* insert deltas that start one row past the row after the last
FarDeltas ==
    {[start |-> Pos(Len(lines) + 1, 0), end |-> EndOf(Pos(Len(lines) + 1, 0), ls),
      action |-> "insert", lines |-> ls] : ls \in FittingLines}

\* the inverse Document.revertDelta builds
Inverse(delta) ==
    [delta EXCEPT !.action = IF @ = "insert" THEN "remove" ELSE "insert"]

\* the deltas that are well formed for the line array ls and stay in bounds
ValidDeltasFor(ls) ==
    LET inside == {p \in {Pos(r, c) : r \in 0..(Len(ls) - 1),
                                      c \in 0..Longest(ls)} :
                     PositionInDocument(ls, p)}
    IN  {[start |-> s, end |-> EndOf(s, n), action |-> "insert", lines |-> n] :
            <<s, n>> \in {<<s, n>> \in inside \X LineLists :
                            /\ CharCount(n) + CharCount(ls) <= MaxChars
                            /\ Len(n) + Len(ls) - 1 <= MaxRows}}
        \cup
        {[start |-> s, end |-> e, action |-> "remove",
          lines |-> GetLinesForRange(ls, [start |-> s, end |-> e])] :
            <<s, e>> \in {<<s, e>> \in inside \X inside :
                            ComparePoints(s, e) < 0}}

Cur == Ctx(lines, autoNewLine, newLineMode)
PreOf(c) == [lines |-> c.lines, auto |-> c.auto, mode |-> c.mode]
NoHeld == [from |-> "none", deltas |-> <<>>, given |-> <<>>, base |-> <<>>]

\* the deltas carried by the change notifications of a call, in order
RECURSIVE DeltasOf(_)
DeltasOf(ev) ==
    IF Len(ev) = 0 THEN <<>>
    ELSE IF ev[1].type = "change" THEN <<ev[1].delta>> \o DeltasOf(Tail(ev))
    ELSE DeltasOf(Tail(ev))

\* a public call returns (or raises) with result context r
Return(r, callrec, heldrec) ==
    /\ InBounds(r.lines)
    /\ lines' = r.lines
    /\ autoNewLine' = r.auto
    /\ newLineMode' = r.mode
    /\ pc' = "returned"
    /\ call' = callrec
    /\ pre' = PreOf(Cur)
    /\ events' = r.ev
    /\ result' = (callrec.name :> r.ret)
    /\ threw' = r.err
    /\ stale' = r.stale
    /\ held' = heldrec

\* what a subscriber to "change" holds after the editing call named op
LogOf(r, op) ==
    IF r.err \/ DeltasOf(r.ev) = <<>> THEN NoHeld
    ELSE [from |-> op, deltas |-> DeltasOf(r.ev), given |-> <<>>,
          base |-> lines]

\* the names of the public editing operations
EditOps ==
    {"insert", "insertInLine", "insertMergedLines", "insertFullLines",
     "remove", "removeInLine", "removeFullLines", "removeNewLine", "replace",
     "setValue", "insertLines", "removeLines", "insertNewLine"}

\* new Document(textOrLines), from a line array or from one of texts
Construct(texts) ==
    \E isArray \in BOOLEAN :
      \E input \in IF isArray THEN LineLists \cup {<<>>}
                   ELSE {t \in texts : CharCount(Split(t)) <= MaxChars} :
        \E r \in {Constructor(input, isArray)} :
            /\ InBounds(r.lines)
            /\ lines = r.lines
            /\ autoNewLine = r.auto
            /\ newLineMode = r.mode
            /\ pc = "returned"
            /\ call = [name |-> "constructor", input |-> input,
                       isArray |-> isArray]
            /\ pre = [lines |-> <<<<>>>>, auto |-> <<>>, mode |-> "auto"]
            /\ events = r.ev
            /\ result = ("constructor" :> r.ret)
            /\ threw = r.err
            /\ stale = 0
            /\ held = NoHeld

Init == Construct(LfTexts(MaxTextLen))

\* the caller goes on to its next call
Resume ==
    /\ pc = "returned"
    /\ pc' = "idle"
    /\ call' = [name |-> "none"]
    /\ pre' = NoValue
    /\ events' = <<>>
    /\ result' = ("none" :> NoValue)
    /\ threw' = FALSE
    /\ stale' = 0
    /\ held' = NoHeld
    /\ UNCHANGED <<lines, autoNewLine, newLineMode>>

DoInsert(texts) ==
    /\ pc = "idle"
    /\ \E position \in Positions, text \in Fitting(texts) :
         \E r \in {Insert(Cur, position, text)} :
             Return(r, [name |-> "insert", position |-> position,
                        text |-> text], LogOf(r, "insert"))

DoInsertInLine ==
    /\ pc = "idle"
    /\ \E position \in Positions, text \in Strings(Room) :
         \E r \in {InsertInLine(Cur, position, text)} :
             Return(r, [name |-> "insertInLine", position |-> position,
                        text |-> text], LogOf(r, "insertInLine"))

DoInsertMergedLines ==
    /\ pc = "idle"
    /\ \E position \in Positions, ls \in FittingLines :
         \E r \in {InsertMergedLines(Cur, position, ls)} :
             Return(r, [name |-> "insertMergedLines", position |-> position,
                        lines |-> ls], LogOf(r, "insertMergedLines"))

DoInsertFullLines ==
    /\ pc = "idle"
    /\ \E row \in Rows \cup {Len(lines) + 1}, ls \in FittingLines \cup {<<>>} :
         \E r \in {InsertFullLines(Cur, row, ls)} :
             Return(r, [name |-> "insertFullLines", row |-> row,
                        lines |-> ls], LogOf(r, "insertFullLines"))

\* insertLines(row, lines), the deprecated name of insertFullLines
DoInsertLines ==
    /\ pc = "idle"
    /\ \E row \in Rows \cup {Len(lines) + 1}, ls \in FittingLines \cup {<<>>} :
         \E r \in {InsertLines(Cur, row, ls)} :
             Return(r, [name |-> "insertLines", row |-> row, lines |-> ls],
                    LogOf(r, "insertLines"))

\* insertNewLine(position), the deprecated way to split a line
DoInsertNewLine ==
    /\ pc = "idle"
    /\ \E position \in Positions :
         \E r \in {InsertNewLine(Cur, position)} :
             Return(r, [name |-> "insertNewLine", position |-> position],
                    LogOf(r, "insertNewLine"))

DoRemove ==
    /\ pc = "idle"
    /\ \E range \in Ranges :
         \E r \in {Remove(Cur, range)} :
             Return(r, [name |-> "remove", range |-> range],
                    LogOf(r, "remove"))

DoRemoveInLine ==
    /\ pc = "idle"
    /\ \E row \in Rows, startColumn \in Cols, endColumn \in Cols :
         \E r \in {RemoveInLine(Cur, row, startColumn, endColumn)} :
             Return(r, [name |-> "removeInLine", row |-> row,
                        startColumn |-> startColumn,
                        endColumn |-> endColumn], LogOf(r, "removeInLine"))

DoRemoveFullLines ==
    /\ pc = "idle"
    /\ \E firstRow \in Rows, lastRow \in Rows :
         \E r \in {RemoveFullLines(Cur, firstRow, lastRow)} :
             Return(r, [name |-> "removeFullLines", firstRow |-> firstRow,
                        lastRow |-> lastRow], LogOf(r, "removeFullLines"))

\* removeLines(firstRow, lastRow), the deprecated name of removeFullLines
DoRemoveLines ==
    /\ pc = "idle"
    /\ \E firstRow \in Rows, lastRow \in Rows :
         \E r \in {RemoveLines(Cur, firstRow, lastRow)} :
             Return(r, [name |-> "removeLines", firstRow |-> firstRow,
                        lastRow |-> lastRow], LogOf(r, "removeLines"))

DoRemoveNewLine ==
    /\ pc = "idle"
    /\ \E row \in Rows :
         \E r \in {RemoveNewLine(Cur, row)} :
             Return(r, [name |-> "removeNewLine", row |-> row],
                    LogOf(r, "removeNewLine"))

\* replace(range, text)
DoReplace ==
    /\ pc = "idle"
    /\ \E range \in Ranges, text \in Fitting(LfTexts(MaxEditLen)) :
         \E r \in {Replace(Cur, range, text)} :
             Return(r, [name |-> "replace", range |-> range, text |-> text],
                    LogOf(r, "replace"))

\* replace(range, getTextRange(range))
DoReplaceSame ==
    /\ pc = "idle"
    /\ \E range \in Ranges :
         \E text \in {GetTextRange(Cur, range)} :
           \E r \in {Replace(Cur, range, text)} :
             Return(r, [name |-> "replace", range |-> range, text |-> text],
                    LogOf(r, "replace"))

DoSetValue(texts) ==
    /\ pc = "idle"
    /\ \E text \in {t \in texts : CharCount(Split(t)) <= MaxChars} :
         \E r \in {SetValue(Cur, text)} :
             Return(r, [name |-> "setValue", text |-> text],
                    LogOf(r, "setValue"))

DoSetNewLineMode ==
    /\ pc = "idle"
    /\ \E newLineMode0 \in {"auto", "windows", "unix"} :
         \E r \in {SetNewLineMode(Cur, newLineMode0)} :
             Return(r, [name |-> "setNewLineMode", mode |-> newLineMode0],
                    NoHeld)

\* an argument that may be left undefined: <<>> or <<v>> with v in S
Optional(S) == {<<>>} \cup {<<v>> : v \in S}

\* clippedPos(row, column), each an integer or undefined
DoClippedPos ==
    /\ pc = "idle"
    /\ \E row \in Optional(Rows \cup {Len(lines) + 1}), column \in Optional(Cols) :
         \E r \in {[Cur EXCEPT !.ret = ClippedPosOpt(lines, row, column)]} :
             Return(r, [name |-> "clippedPos",
                        args |-> [row |-> row, column |-> column]], NoHeld)

\* getLine(row) with any integer row
DoGetLine ==
    /\ pc = "idle"
    /\ \E row \in Rows \cup {Len(lines) + 1} :
         \E r \in {[Cur EXCEPT !.ret = GetLine(lines, row)]} :
             Return(r, [name |-> "getLine", row |-> row], NoHeld)

\* the start rows handed to the position conversions
StartRows == 0 .. Min(1, Len(lines) - 1)

\* the indexes handed to indexToPosition: from one before the first to past
\* the last
Indexes == -1 .. (CharCount(lines) + 2 * Len(lines) + 1)

DoPositionToIndex ==
    /\ pc = "idle"
    /\ \E pos \in Positions, startRow \in StartRows :
         \E r \in {[Cur EXCEPT !.ret = PositionToIndex(Cur, pos, startRow)]} :
             Return(r, [name |-> "positionToIndex", pos |-> pos,
                        startRow |-> startRow], NoHeld)

\* indexToPosition(index, startRow) with any index
DoIndexToPosition ==
    /\ pc = "idle"
    /\ \E index \in Indexes, startRow \in StartRows :
         \E r \in {[Cur EXCEPT !.ret = IndexToPosition(Cur, index, startRow)]} :
             Return(r, [name |-> "indexToPosition", of |-> "none",
                        index |-> index, startRow |-> startRow], NoHeld)

\* indexToPosition(positionToIndex(pos, startRow), startRow)
DoIndexToPositionOf ==
    /\ pc = "returned"
    /\ call.name = "positionToIndex"
    /\ \E r \in {[Cur EXCEPT !.ret = IndexToPosition(Cur, ret, call.startRow)]} :
         Return(r, [name |-> "indexToPosition", of |-> "positionToIndex",
                    pos |-> call.pos, index |-> ret,
                    startRow |-> call.startRow], NoHeld)

\* applyDelta(delta, doNotValidate); the caller keeps its delta object
DoApplyDelta ==
    /\ pc = "idle"
    /\ \E delta \in Deltas, doNotValidate \in BOOLEAN :
         \E r \in {ApplyDelta(Cur, delta, doNotValidate)} :
             Return(r, [name |-> "applyDelta", delta |-> delta,
                        doNotValidate |-> doNotValidate],
                    IF r.err THEN NoHeld
                    ELSE [from |-> "applyDelta", deltas |-> <<r.delta>>,
                          given |-> <<delta>>, base |-> lines])

RECURSIVE ValidListsFrom(_, _)
\* the lists of at most n deltas, each well formed for the lines the deltas
\* before it leave
ValidListsFrom(ls, n) ==
    IF n = 0 THEN {<<>>}
    ELSE {<<>>} \cup
         UNION {{<<d>> \o rest :
                   rest \in ValidListsFrom(
                       ApplyDelta(Ctx(ls, <<>>, "auto"), d, FALSE).lines, n - 1)} :
                 d \in ValidDeltasFor(ls)}

\* applyDeltas(list) with deltas that are well formed where they are applied
DoApplyDeltas ==
    /\ pc = "idle"
    /\ \E list \in ValidListsFrom(lines, MaxDeltas) \ {<<>>} :
         \E r \in {ApplyDeltas(Cur, list)} :
             Return(r, [name |-> "applyDeltas", deltas |-> list],
                    IF r.err THEN NoHeld
                    ELSE [from |-> "applyDeltas", deltas |-> r.deltas,
                          given |-> list, base |-> lines])

\* the well-formed deltas for ls that insert or remove the first character
FirstCharDeltas(ls) ==
    {d \in ValidDeltasFor(ls) : d.start = Pos(0, 0) /\ d.end = Pos(0, 1)}

\* at most one delta that is well formed for ls
AtMostOne(ls) == {<<>>} \cup {<<d>> : d \in FirstCharDeltas(ls)}

\* applyDeltas(list) with a list that holds any delta, well formed or not,
\* after and before at most one well-formed delta
DoApplyDeltasAny ==
    /\ pc = "idle"
    /\ \E before \in AtMostOne(lines) :
         \E after \in AtMostOne(ApplyDeltas(Cur, before).lines), delta \in Deltas :
           \E r \in {ApplyDeltas(Cur, before \o <<delta>> \o after)} :
             Return(r, [name |-> "applyDeltas",
                        deltas |-> before \o <<delta>> \o after], NoHeld)

\* the deltas the first subscriber applies from inside its handler: none, or
\* one that is well formed for the lines ls it reads there
Reactions(ls) == {<<>>} \cup {<<d>> : d \in ValidDeltasFor(ls)}

\* applyDelta(delta) with a well-formed delta while the two subscribers are
\* registered; the second subscriber keeps the deltas it received
DoApplyDeltaSubscribed ==
    /\ pc = "idle"
    /\ \E delta \in ValidDeltasFor(lines) :
         \E reactions \in Reactions(ApplyDelta(Cur, delta, FALSE).lines) :
           \E r \in {ApplyDelta([Cur EXCEPT !.reactions = reactions],
                                delta, FALSE)} :
             Return(r, [name |-> "applyDeltaSubscribed", delta |-> delta,
                        reactions |-> reactions],
                    [from |-> "subscriber", deltas |-> r.received,
                     given |-> <<>>, base |-> lines])

\* revertDelta(delta) with any delta, recorded for this document or not
DoRevertDelta ==
    /\ pc = "idle"
    /\ \E d \in Deltas \cup FarDeltas :
         \E r \in {RevertDelta(Cur, Inverse(d))} :
             Return(r, [name |-> "revertDelta", of |-> "none",
                        delta |-> Inverse(d)], NoHeld)

\* revertDelta(D) right after applyDelta(D), with the same object D
DoRevertApplied ==
    /\ pc = "returned"
    /\ held.from = "applyDelta"
    /\ \E r \in {RevertDelta(Cur, held.deltas[1])} :
         Return(r, [name |-> "revertDelta", of |-> "applyDelta",
                    delta |-> held.deltas[1], given |-> held.given[1],
                    base |-> held.base], NoHeld)

\* revertDeltas(list) right after applyDeltas(list), with the same list
DoRevertAppliedList ==
    /\ pc = "returned"
    /\ held.from = "applyDeltas"
    /\ \E r \in {RevertDeltas(Cur, held.deltas)} :
         Return(r, [name |-> "revertDeltas", of |-> "applyDeltas",
                    deltas |-> held.deltas, given |-> held.given,
                    base |-> held.base], NoHeld)

\* revertDeltas(log) right after an editing call, log being the deltas of
\* the change notifications of that call
DoRevertLog ==
    /\ pc = "returned"
    /\ held.from \in EditOps
    /\ \E r \in {RevertDeltas(Cur, held.deltas)} :
         Return(r, [name |-> "revertDeltas", of |-> held.from,
                    deltas |-> held.deltas, base |-> held.base], NoHeld)

\* the public editing interface
Next ==
    \/ Resume
    \/ DoInsert(LfTexts(MaxEditLen))
    \/ DoInsertInLine
    \/ DoInsertMergedLines
    \/ DoInsertFullLines
    \/ DoInsertLines
    \/ DoInsertNewLine
    \/ DoRemove
    \/ DoRemoveInLine
    \/ DoRemoveFullLines
    \/ DoRemoveLines
    \/ DoRemoveNewLine
    \/ DoReplace
    \/ DoSetValue(LfTexts(MaxEditLen))
    \/ DoRevertDelta
    \/ DoRevertLog
    \/ DoClippedPos
    \/ DoGetLine

Spec == Init /\ [][Next]_vars

\* the delta interface, on documents built from line arrays
InitDelta == Construct({})

NextDelta ==
    \/ Resume
    \/ DoApplyDelta
    \/ DoApplyDeltas
    \/ DoApplyDeltasAny
    \/ DoRevertDelta
    \/ DoRevertApplied
    \/ DoRevertAppliedList

SpecDelta == InitDelta /\ [][NextDelta]_vars

\* the delta interface with the two subscribers to "change"
NextSubscribed ==
    \/ Resume
    \/ DoApplyDeltaSubscribed

SpecSubscribed == InitDelta /\ [][NextSubscribed]_vars

\* texts and newline modes
InitNewLine == Construct(AllTexts(MaxTextLen))

NextNewLine ==
    \/ Resume
    \/ DoSetNewLineMode
    \/ DoInsert(AllTexts(MaxEditLen))
    \/ DoReplaceSame
    \/ DoInsertMergedLines
    \/ DoPositionToIndex
    \/ DoIndexToPosition
    \/ DoIndexToPositionOf

SpecNewLine == InitNewLine /\ [][NextNewLine]_vars

(***************************************************************************)
(* The claims.                                                             *)
(***************************************************************************)
PreCtx == Ctx(pre.lines, pre.auto, pre.mode)
Returned(name) == pc = "returned" /\ call.name = name
Unchanged ==
    lines = pre.lines /\ autoNewLine = pre.auto /\ newLineMode = pre.mode

\* C1: after construction from a text, from a line array or from empty input,
\* and after every public mutating call (insert, insertInLine,
\* insertMergedLines, insertFullLines, remove, removeInLine, removeFullLines,
\* removeNewLine, replace, setValue, revertDelta, revertDeltas), the document
\* has at least one line.
C1_LengthAtLeastOne == GetLength(lines) >= 1

\* removeFullLines has removed every row of a document of several rows
C1_Witness ==
    /\ Returned("removeFullLines")
    /\ Len(pre.lines) >= 2
    /\ call.firstRow <= 0 /\ call.lastRow >= Len(pre.lines) - 1
    /\ Len(events) = 1
    /\ lines = <<<<>>>>

\* C2: revertDelta(D) right after an applyDelta(D) that applied a well-formed
\* delta D restores the lines and getValue() of before applyDelta(D), for
\* inserts below and above the chunking threshold.
C2_RevertRestores ==
    (/\ Returned("revertDelta")
     /\ call.of = "applyDelta"
     /\ ValidDelta(call.base, call.given))
    => /\ lines = call.base
       /\ GetValue(Cur) = GetValue(Ctx(call.base, autoNewLine, newLineMode))

\* C3: an insert delta of more than MAX lines that starts at a position of
\* the document leaves the lines a single splice of the whole delta leaves.
C3_ChunkedEqualsSingleSplice ==
    (/\ Returned("applyDelta")
     /\ call.delta.action = "insert"
     /\ Len(call.delta.lines) > MAX
     /\ PositionInDocument(pre.lines, call.delta.start))
    => /\ ~threw
       /\ lines = SpliceLines(pre.lines, call.delta).lines

\* a chunked insert has split a line between two of its characters
C3_Witness ==
    /\ Returned("applyDelta")
    /\ call.delta.action = "insert"
    /\ Len(call.delta.lines) > MAX
    /\ ValidDelta(pre.lines, call.delta)
    /\ call.delta.start.column > 0
    /\ call.delta.start.column < Len(pre.lines[call.delta.start.row + 1])
    /\ Len(events) >= 2
    /\ Len(lines) = Len(pre.lines) + Len(call.delta.lines) - 1

\* C4: after a public editing call (insert, insertInLine, insertFullLines,
\* remove, removeInLine, removeFullLines, removeNewLine, replace, setValue)
\* with any integer rows and columns, revertDeltas on the deltas of the
\* change notifications of the call restores the lines of before the call
\* and discards no delta as stale.
C4_LogRevertRestores ==
    (/\ Returned("revertDeltas")
     /\ call.of \in {"insert", "insertInLine", "insertFullLines", "remove",
                     "removeInLine", "removeFullLines", "removeNewLine",
                     "replace", "setValue"})
    => /\ lines = call.base
       /\ stale = 0
       /\ ~threw

\* C5: revertDeltas(list) right after applyDeltas(list), every delta of the
\* list being well formed for the lines it is applied to, restores the lines
\* of before applyDeltas(list).
C5_RevertDeltasRestores ==
    (/\ Returned("revertDeltas")
     /\ call.of = "applyDeltas")
    => lines = call.base

\* C6 as stated: revertDelta(D) with the start or the end of D outside the
\* current document changes no line, emits nothing and raises nothing.
C6_OutsideRevertSilent ==
    (/\ Returned("revertDelta")
     /\ call.of = "none"
     /\ \/ ~PositionInDocument(pre.lines, call.delta.start)
        \/ ~PositionInDocument(pre.lines, call.delta.end))
    => /\ Unchanged
       /\ events = <<>>
       /\ ~threw

\* the rows of D no longer fit the line array ls
RowsStale(ls, D) ==
    \/ D.action = "insert" /\ (D.start.row >= Len(ls) \/ D.end.row >= Len(ls))
    \/ D.action = "remove" /\ D.start.row > Len(ls)

\* C6 amended: revertDelta(D) with D an insert whose start row or end row is
\* at or past getLength(), or D a remove whose start row is past getLength(),
\* changes no line, emits nothing and raises nothing.
C6_StaleRowsRevertSilent ==
    (/\ Returned("revertDelta")
     /\ call.of = "none"
     /\ RowsStale(pre.lines, call.delta))
    => /\ Unchanged
       /\ events = <<>>
       /\ ~threw

\* the revert of an insert that starts in the document and ends below it has
\* been discarded
C6_Witness ==
    /\ Returned("revertDelta")
    /\ call.of = "none"
    /\ call.delta.action = "insert"
    /\ PositionInDocument(pre.lines, call.delta.start)
    /\ call.delta.end.row >= Len(pre.lines)
    /\ stale = 1
    /\ lines = pre.lines

\* C7: applyDelta with an insert of exactly one empty line, or with a remove
\* whose start equals its end, changes neither the lines nor the newline
\* settings and emits nothing, with validation or without.
C7_NoopGuard ==
    (/\ Returned("applyDelta")
     /\ \/ call.delta.action = "insert" /\ call.delta.lines = <<<<>>>>
        \/ call.delta.action = "remove" /\ call.delta.start = call.delta.end)
    => /\ Unchanged
       /\ events = <<>>
       /\ ~threw

\* a validated remove with start = end outside the document was a no-op
C7_Witness ==
    /\ Returned("applyDelta")
    /\ call.delta.action = "remove"
    /\ call.delta.start = call.delta.end
    /\ ~PositionInDocument(pre.lines, call.delta.start)
    /\ ~call.doNotValidate
    /\ CharCount(lines) > 0
    /\ events = <<>>

\* every change notification of the last call was emitted after a splice
\* that changed the lines
EveryChangeMutated ==
    \A i \in 1..Len(events) :
        events[i].type = "change" => events[i].before # events[i].seen

\* exactly one change notification, carrying delta, delivered while the
\* document already held its final lines, which differ from the earlier ones
OneChangeAfterMutation(delta) ==
    /\ Len(events) = 1
    /\ events[1].type = "change"
    /\ events[1].delta = delta
    /\ events[1].before = pre.lines
    /\ events[1].seen = lines
    /\ lines # pre.lines

Oversized(delta) == delta.action = "insert" /\ Len(delta.lines) > MAX

\* C8 as stated: every applyDelta call that is neither a no-op nor an
\* oversized insert mutates the lines and then emits exactly one change
\* notification carrying its delta, and no change notification is emitted
\* for a delta that did not mutate the lines.
C8_MutateThenNotify ==
    Returned("applyDelta")
    => /\ (~IsNoop(call.delta) /\ ~Oversized(call.delta))
             => OneChangeAfterMutation(call.delta)
       /\ EveryChangeMutated

\* C8 amended: the same for every applyDelta call whose delta is well formed
\* for the document (start in the document, end in the document for a
\* remove, lines spanning exactly start to end).
C8_ValidMutateThenNotify ==
    (Returned("applyDelta") /\ ValidDelta(pre.lines, call.delta))
    => /\ ~threw
       /\ (~IsNoop(call.delta) /\ ~Oversized(call.delta))
             => OneChangeAfterMutation(call.delta)
       /\ EveryChangeMutated

\* a validated remove across rows was spliced and notified once
C8_Witness ==
    /\ Returned("applyDelta")
    /\ ~call.doNotValidate
    /\ call.delta.action = "remove"
    /\ call.delta.end.row > call.delta.start.row
    /\ ValidDelta(pre.lines, call.delta)
    /\ OneChangeAfterMutation(call.delta)

RECURSIVE Separators(_)
\* the line separators of a text, in order: "CRLF", "CR" or "LF"
Separators(text) ==
    IF Len(text) = 0 THEN <<>>
    ELSE IF Len(text) >= 2 /\ text[1] = CR /\ text[2] = LF
         THEN <<"CRLF">> \o Separators(SubSeq(text, 3, Len(text)))
    ELSE IF text[1] = CR THEN <<"CR">> \o Separators(Tail(text))
    ELSE IF text[1] = LF THEN <<"LF">> \o Separators(Tail(text))
    ELSE Separators(Tail(text))

Uniform(text) ==
    \A i, j \in 1..Len(Separators(text)) :
        Separators(text)[i] = Separators(text)[j]

\* C9: a Document constructed from a text T whose line separators are all
\* the same is in auto newline mode and getValue() returns T.
C9_RoundTrip ==
    (call.name = "constructor" /\ ~call.isArray /\ Uniform(call.input))
    => /\ newLineMode = "auto"
       /\ GetValue(Cur) = call.input

\* a text with \r\n separators and several lines has been constructed
C9_Witness ==
    /\ call.name = "constructor" /\ ~call.isArray
    /\ Uniform(call.input)
    /\ Separators(call.input) = <<"CRLF">>
    /\ Len(call.input) = 4
    /\ Len(lines) = 2
    /\ autoNewLine = <<CR, LF>>

\* C10: replace(range, getTextRange(range)) changes neither the lines nor
\* the newline settings and emits no notification, for every range and in
\* every newline mode.
C10_ReplaceSame ==
    (/\ Returned("replace")
     /\ call.text = GetTextRange(PreCtx, call.range))
    => /\ Unchanged
       /\ events = <<>>
       /\ ~threw

\* in windows mode, a range across rows was replaced by its own text
C10_Witness ==
    /\ Returned("replace")
    /\ pre.mode = "windows"
    /\ call.range.start.row = 0 /\ call.range.end.row = 1
    /\ PositionInDocument(pre.lines, call.range.start)
    /\ PositionInDocument(pre.lines, call.range.end)
    /\ call.text = GetTextRange(PreCtx, call.range)
    /\ Len(call.text) >= 3
    /\ ret = call.range.end

\* p is a position of the line array ls
InDocument(ls, p) ==
    /\ 0 <= p.row /\ p.row < Len(ls)
    /\ 0 <= p.column /\ p.column <= Len(ls[p.row + 1])

\* C11: for every position P of the document, in every newline mode,
\* indexToPosition(positionToIndex(P)) with start row 0 is P.
C11_PositionRoundTrip ==
    (/\ Returned("indexToPosition")
     /\ call.of = "positionToIndex"
     /\ call.startRow = 0
     /\ InDocument(lines, call.pos))
    => ret = call.pos

\* with a newline of two characters, the end of the first of several
\* non-empty lines was converted to an index and back
C11_Witness ==
    /\ Returned("indexToPosition")
    /\ call.of = "positionToIndex"
    /\ call.startRow = 0
    /\ Len(GetNewLineCharacter(Cur)) = 2
    /\ Len(lines) >= 2
    /\ call.pos = Pos(1, Len(lines[2]))
    /\ Len(lines[1]) >= 1
    /\ call.index = Len(lines[1]) + 2 + Len(lines[2])
    /\ ret = call.pos

\* C12: clippedPos(row, column) with an integer row and an integer or
\* undefined column returns a position of the document: row 0 for a negative
\* row, the end of the last line for a row at or past getLength(), the length
\* of the line for an undefined column, and the position itself when it is a
\* position of the document.
C12_ClippedPos ==
    (Returned("clippedPos") /\ call.args.row # <<>>)
    => LET row == call.args.row[1]
           length == Len(lines)
       IN  /\ InDocument(lines, ret)
           /\ row < 0 => ret.row = 0
           /\ row >= length => ret = Pos(length - 1, Len(lines[length]))
           /\ (row >= 0 /\ row < length) => ret.row = row
           /\ call.args.column = <<>> => ret.column = Len(lines[ret.row + 1])
           /\ (call.args.column # <<>> /\ InDocument(lines, Pos(row, call.args.column[1])))
                 => ret = Pos(row, call.args.column[1])

\* a row past the last with column 0 was clipped to the end of a non-empty
\* last line
C12_Witness ==
    /\ Returned("clippedPos")
    /\ call.args.row = <<Len(lines) + 1>>
    /\ call.args.column = <<0>>
    /\ Len(lines) >= 2
    /\ Len(lines[Len(lines)]) >= 1
    /\ ret = Pos(Len(lines) - 1, Len(lines[Len(lines)]))

\* p is at or before q in the row-then-column order
AtOrBefore(p, q) == p.row < q.row \/ (p.row = q.row /\ p.column <= q.column)

\* C13: remove(range) with start at or before end and any integer rows and
\* columns raises nothing and applies a delta whose clipped start is at or
\* before its clipped end; insert(pos, text) and getLine(row) raise nothing
\* for any integer row and column.
C13_OutOfRangeNeverRaises ==
    /\ (Returned("remove") /\ AtOrBefore(call.range.start, call.range.end))
         => /\ ~threw
            /\ AtOrBefore(
                 ClippedPos(pre.lines, call.range.start.row,
                            call.range.start.column),
                 ClippedPos(pre.lines, call.range.end.row,
                            call.range.end.column))
    /\ Returned("insert") => ~threw
    /\ Returned("getLine") => ~threw

\* the line array old with the lines ls merged in at its position p
MergedInto(old, p, ls) ==
    LET n == Len(ls)
        line == old[p.row + 1]
        head == SubSeq(line, 1, p.column)
        tail == SubSeq(line, p.column + 1, Len(line))
        mid == IF n = 1 THEN <<head \o ls[1] \o tail>>
               ELSE <<head \o ls[1]>> \o SubSeq(ls, 2, n - 1)
                      \o <<ls[n] \o tail>>
    IN  SubSeq(old, 1, p.row) \o mid \o SubSeq(old, p.row + 2, Len(old))

\* the call merged ls in at the clipped position and returned the end of it
MergedAt(position, ls) ==
    LET p == ClippedPos(pre.lines, position.row, position.column)
        n == Len(ls)
    IN  /\ ~threw
        /\ lines = MergedInto(pre.lines, p, ls)
        /\ ret = Pos(p.row + n - 1,
                     (IF n = 1 THEN p.column ELSE 0) + Len(ls[n]))

\* C14: insertMergedLines(pos, lines) with a non-empty list of lines merges
\* the first line into the text before the clipped position and the last
\* line into the text after it, and returns the end of the inserted text;
\* insert(pos, text) does the same with the text split on \r\n, \r or \n and
\* returns the clipped position when the text is empty.
C14_InsertMergedLines ==
    /\ Returned("insertMergedLines") => MergedAt(call.position, call.lines)
    /\ Returned("insert")
         => /\ MergedAt(call.position, Split(call.text))
            /\ call.text = <<>>
                 => ret = ClippedPos(pre.lines, call.position.row,
                                     call.position.column)

\* a text holding only a newline with \r has split a line between its two
\* characters
C14_Witness ==
    /\ Returned("insert")
    /\ CR \in {call.text[i] : i \in 1..Len(call.text)}
    /\ Len(Split(call.text)) = 2
    /\ Len(pre.lines) = 1
    /\ Len(pre.lines[1]) = 2
    /\ call.position.column = 1
    /\ Len(lines) = 2
    /\ ret = Pos(1, 0)

\* the line array old without the text from its position s to its position e
WithoutRange(old, s, e) ==
    SubSeq(old, 1, s.row)
      \o <<SubSeq(old[s.row + 1], 1, s.column)
             \o SubSeq(old[e.row + 1], e.column + 1, Len(old[e.row + 1]))>>
      \o SubSeq(old, e.row + 2, Len(old))

\* the text of old from its position s to its position e, line by line
ContentOf(old, s, e) ==
    IF s.row = e.row
    THEN <<SubSeq(old[s.row + 1], s.column + 1, e.column)>>
    ELSE <<SubSeq(old[s.row + 1], s.column + 1, Len(old[s.row + 1]))>>
           \o SubSeq(old, s.row + 2, e.row)
           \o <<SubSeq(old[e.row + 1], 1, e.column)>>

\* C15: remove(range) whose clipped start s is at or before its clipped end
\* e leaves the lines before s joined to the lines after e, returns s and
\* emits exactly one change notification, whose lines are the removed text;
\* when s = e it changes nothing and emits nothing.
C15_Remove ==
    Returned("remove")
    => LET s == ClippedPos(pre.lines, call.range.start.row,
                           call.range.start.column)
           e == ClippedPos(pre.lines, call.range.end.row,
                           call.range.end.column)
       IN  AtOrBefore(s, e)
           => /\ ~threw
              /\ ret = s
              /\ lines = WithoutRange(pre.lines, s, e)
              /\ s = e => (lines = pre.lines /\ events = <<>>)
              /\ s # e => /\ Len(events) = 1
                          /\ events[1].type = "change"
                          /\ events[1].delta.action = "remove"
                          /\ events[1].delta.start = s
                          /\ events[1].delta.end = e
                          /\ events[1].delta.lines = ContentOf(pre.lines, s, e)

\* a range given past the end of the second row was clipped and removed
\* text of two rows
C15_Witness ==
    /\ Returned("remove")
    /\ Len(pre.lines) = 3
    /\ call.range.start = Pos(0, 1)
    /\ call.range.end.row = 1
    /\ call.range.end.column > Len(pre.lines[2])
    /\ Len(pre.lines[1]) >= 1 /\ Len(pre.lines[2]) >= 1
    /\ Len(events) = 1
    /\ Len(lines) = 2
    /\ ret = Pos(0, 1)

\* the last call was removeFullLines(firstRow, lastRow) with rows of the
\* document, firstRow at or before lastRow
RemovedRows ==
    /\ Returned("removeFullLines")
    /\ 0 <= call.firstRow /\ call.firstRow <= call.lastRow
    /\ call.lastRow < Len(pre.lines)

\* the old lines without the rows firstRow..lastRow
OtherRows ==
    SubSeq(pre.lines, 1, call.firstRow)
      \o SubSeq(pre.lines, call.lastRow + 2, Len(pre.lines))

\* C16 as stated: removeFullLines(firstRow, lastRow) with
\* 0 <= firstRow <= lastRow < getLength() returns the old rows
\* firstRow..lastRow, leaves exactly the other old rows in their order, and
\* getLength() decreases by exactly lastRow - firstRow + 1.
C16_RemoveFullLines ==
    RemovedRows
    => /\ ~threw
       /\ ret = SubSeq(pre.lines, call.firstRow + 1, call.lastRow + 1)
       /\ lines = OtherRows
       /\ Len(lines) = Len(pre.lines) - (call.lastRow - call.firstRow + 1)

\* C16 amended: the same when at least one row is left; when the rows
\* firstRow..lastRow are all the rows of the document, removeFullLines
\* returns them and leaves a single empty line.
C16_RemoveFullLinesKeepsOne ==
    RemovedRows
    => /\ ~threw
       /\ ret = SubSeq(pre.lines, call.firstRow + 1, call.lastRow + 1)
       /\ IF call.firstRow = 0 /\ call.lastRow = Len(pre.lines) - 1
          THEN lines = <<<<>>>>
          ELSE /\ lines = OtherRows
               /\ Len(lines)
                    = Len(pre.lines) - (call.lastRow - call.firstRow + 1)

\* the last two of three rows were removed together with the newline before
\* them
C16_Witness ==
    /\ RemovedRows
    /\ Len(pre.lines) = 3
    /\ call.firstRow = 1 /\ call.lastRow = 2
    /\ Len(pre.lines[1]) >= 1 /\ Len(pre.lines[3]) >= 1
    /\ ret = <<pre.lines[2], pre.lines[3]>>
    /\ lines = <<pre.lines[1]>>
    /\ Len(events) = 1

\* C17: insertFullLines(row, lines), with row clipped to [0, getLength()],
\* leaves the old rows before row, then lines, then the old rows from row
\* on: no line is merged, and getLength() grows by the number of lines.
C17_InsertFullLines ==
    Returned("insertFullLines")
    => LET row == IF call.row < 0 THEN 0
                  ELSE IF call.row > Len(pre.lines) THEN Len(pre.lines)
                  ELSE call.row
       IN  /\ ~threw
           /\ lines = SubSeq(pre.lines, 1, row) \o call.lines
                        \o SubSeq(pre.lines, row + 1, Len(pre.lines))
           /\ Len(lines) = Len(pre.lines) + Len(call.lines)

\* a non-empty line was inserted one past the last row, after a non-empty
\* last line
C17_Witness ==
    /\ Returned("insertFullLines")
    /\ call.row >= Len(pre.lines)
    /\ Len(call.lines) = 1
    /\ Len(call.lines[1]) = 1
    /\ Len(pre.lines[Len(pre.lines)]) = 1
    /\ lines = pre.lines \o call.lines
    /\ Len(events) = 1

RECURSIVE ChangeActions(_)
\* the actions of the change notifications among ev, in emission order
ChangeActions(ev) ==
    IF ev = <<>> THEN <<>>
    ELSE (IF Head(ev).type = "change" THEN <<Head(ev).delta.action>> ELSE <<>>)
           \o ChangeActions(Tail(ev))

\* the last call was replace(range, text) with a range of the document,
\* start at or before end, and a text other than the content of the range
ReplacedRange ==
    /\ Returned("replace")
    /\ InDocument(pre.lines, call.range.start)
    /\ InDocument(pre.lines, call.range.end)
    /\ AtOrBefore(call.range.start, call.range.end)
    /\ call.text # GetTextRange(PreCtx, call.range)

\* the lines hold the text before the range, the text given and the text
\* after the range, and the call returned the end of the text given
ReplacedText ==
    LET s == call.range.start
        ls == Split(call.text)
        n == Len(ls)
    IN  /\ ~threw
        /\ lines = MergedInto(WithoutRange(pre.lines, s, call.range.end), s, ls)
        /\ ret = IF call.text = <<>> THEN s
                 ELSE Pos(s.row + n - 1,
                          (IF n = 1 THEN s.column ELSE 0) + Len(ls[n]))

\* C18 as stated: replace(range, text) with a range of the document and a
\* text other than its content leaves text between the content before and
\* after the range, emits at most one remove and at most one insert change
\* notification, the remove first, and returns the end of the inserted text
\* (range.start for an empty text).
C18_Replace ==
    ReplacedRange
    => /\ ReplacedText
       /\ ChangeActions(events)
            \in {<<>>, <<"remove">>, <<"insert">>, <<"remove", "insert">>}

\* C18 amended: the same, with at most one remove notification, emitted
\* before every insert notification, and at most one insert notification
\* when the text has at most MAX lines.
C18_ReplaceChunked ==
    ReplacedRange
    => LET acts == ChangeActions(events)
       IN  /\ ReplacedText
           /\ \A i \in 2..Len(acts) : acts[i] = "insert"
           /\ Len(Split(call.text)) <= MAX
                => acts \in {<<>>, <<"remove">>, <<"insert">>,
                             <<"remove", "insert">>}

\* the newline between two rows was replaced by a character
C18_Witness ==
    /\ ReplacedRange
    /\ Len(pre.lines) = 2
    /\ Len(pre.lines[1]) = 1
    /\ call.range = [start |-> Pos(0, 1), end |-> Pos(1, 0)]
    /\ Len(call.text) = 1
    /\ Len(lines) = 1
    /\ ChangeActions(events) = <<"remove", "insert">>
    /\ ret = Pos(0, 2)

\* the first line separator of a text as a newline sequence, "\n" when the
\* text has none
FirstSeparator(text) ==
    IF Separators(text) = <<>> THEN <<LF>>
    ELSE IF Separators(text)[1] = "CRLF" THEN <<CR, LF>>
    ELSE IF Separators(text)[1] = "CR" THEN <<CR>>
    ELSE <<LF>>

\* C19: insert(pos, text) on a document of exactly one line sets the
\* auto-newline to the first newline sequence of text ("\n" when text has
\* none) and emits changeNewLineMode before every change notification of the
\* call; insert on a document of more than one line leaves the auto-newline
\* as it was and emits no changeNewLineMode.
C19_InsertDetectsNewLine ==
    Returned("insert")
    => IF Len(pre.lines) = 1
       THEN /\ autoNewLine = FirstSeparator(call.text)
            /\ events # <<>>
            /\ events[1] = ModeEvent
            /\ \A i \in 2..Len(events) : events[i].type = "change"
       ELSE /\ autoNewLine = pre.auto
            /\ \A i \in 1..Len(events) : events[i].type # "changeNewLineMode"

\* "\r\n" was inserted into a one-line document whose auto-newline was "\n":
\* the auto-newline is now "\r\n" and the mode notification came first
C19_Witness ==
    /\ Returned("insert")
    /\ Len(pre.lines) = 1
    /\ pre.auto = <<LF>>
    /\ call.text = <<CR, LF>>
    /\ autoNewLine = <<CR, LF>>
    /\ Len(events) = 2
    /\ events[1] = ModeEvent
    /\ events[2].type = "change"

\* the deltas that reached the splice primitive during the last call, in order
SubDeltas == DeltasOf(events)

\* the caller's delta object after applyDelta: what is left of it is the tail
TailDelta == held.deltas[1]

\* the number of windows the loop cut before the tail
Windows == (Len(call.delta.lines) - Len(TailDelta.lines)) \div (MAX - 1)

\* the i-th window of the original delta: MAX - 1 of its lines and one empty
\* line, at the column of the delta for the first window and at column 0 for
\* the others
Window(i) ==
    [start |-> Pos(call.delta.start.row + (i - 1) * (MAX - 1),
                   IF i = 1 THEN call.delta.start.column ELSE 0),
     end |-> Pos(call.delta.start.row + i * (MAX - 1), 0),
     action |-> "insert",
     lines |-> Append(SubSeq(call.delta.lines, (i - 1) * (MAX - 1) + 1,
                             i * (MAX - 1)), <<>>)]

\* C20: applyDelta of an insert delta of more than MAX lines returns; every
\* delta it hands to the splice primitive has at most MAX lines; the windows
\* hold MAX - 1 lines of the delta each and one empty line, the first starts
\* at the start of the delta and the others at column 0; the tail starts at
\* column 0 and is left with at least one and fewer than MAX lines, so that
\* it is applied without being split again.
C20_SplitWindows ==
    /\ (Returned("applyDelta") /\ Oversized(call.delta))
         => /\ \A i \in 1..Len(SubDeltas) : Len(SubDeltas[i].lines) <= MAX
            /\ SubDeltas # <<>> => SubDeltas[1].start = call.delta.start
            /\ \A i \in 2..Len(SubDeltas) : SubDeltas[i].start.column = 0
    /\ (/\ Returned("applyDelta")
        /\ Oversized(call.delta)
        /\ PositionInDocument(pre.lines, call.delta.start))
         => /\ ~threw
            /\ Len(TailDelta.lines) >= 1
            /\ Len(TailDelta.lines) < MAX
            /\ TailDelta.start.column = 0
            /\ Windows >= 1
            /\ Windows * (MAX - 1) + Len(TailDelta.lines) = Len(call.delta.lines)
            /\ TailDelta.start.row = call.delta.start.row + Windows * (MAX - 1)
            /\ TailDelta.lines = SubSeq(call.delta.lines, Windows * (MAX - 1) + 1,
                                        Len(call.delta.lines))
            /\ Len(SubDeltas) \in {Windows, Windows + 1}
            /\ \A i \in 1..Windows : SubDeltas[i] = Window(i)
            /\ Len(SubDeltas) = Windows + 1 => SubDeltas[Windows + 1] = TailDelta

\* a delta of three lines was inserted inside a line: two windows and a tail
\* of one non-empty line reached the splice primitive
C20_Witness ==
    /\ Returned("applyDelta")
    /\ Oversized(call.delta)
    /\ ~threw
    /\ call.delta.start.column > 0
    /\ Len(call.delta.lines) = MAX + 1
    /\ Len(SubDeltas) = 3
    /\ SubDeltas[1].start = call.delta.start
    /\ SubDeltas[2].start = Pos(call.delta.start.row + 1, 0)
    /\ TailDelta.start = Pos(call.delta.start.row + 2, 0)
    /\ Len(TailDelta.lines) = 1
    /\ TailDelta.lines[1] # <<>>

\* the delta of a change notification is well formed: start and end are
\* positions of the document (the end of an insert in the lines after it),
\* start is at or before end, there is one line more than rows between
\* them, and a remove carries the content that lay between them
WellFormed(e) ==
    LET d == e.delta
        endLines == IF d.action = "insert" THEN e.seen ELSE e.before
    IN  /\ InDocument(e.before, d.start)
        /\ InDocument(endLines, d.end)
        /\ AtOrBefore(d.start, d.end)
        /\ Len(d.lines) - 1 = d.end.row - d.start.row
        /\ d.action = "remove" => d.lines = ContentOf(e.before, d.start, d.end)

\* C21: every delta carried by a change notification of a public editing
\* call (insertInLine and removeInLine, the windows and the tail of a chunked
\* insert included), whatever integer rows and columns were passed, is well
\* formed.
C21_DeltasWellFormed ==
    (pc = "returned" /\ call.name \in EditOps)
    => \A i \in 1..Len(events) :
          events[i].type = "change" => WellFormed(events[i])

RECURSIVE FirstMalformed(_, _, _)
\* the index (from 0) of the first delta of list, from index i on, that is
\* not well formed for the lines the deltas before it leave; Len(list) when
\* there is none
FirstMalformed(c, list, i) ==
    IF i >= Len(list) THEN i
    ELSE IF ~ValidDelta(c.lines, list[i + 1]) THEN i
    ELSE FirstMalformed(ApplyDelta(c, list[i + 1], FALSE), list, i + 1)

\* C22: when the first malformed delta of the list of applyDeltas(list) is at
\* index k, the call raises, and it leaves the lines and the change
\* notifications of applying exactly the deltas before k: delta k changes
\* nothing and notifies nothing, the deltas before it stay applied and no
\* delta after it is applied.
C22_MalformedStopsList ==
    LET k == FirstMalformed(PreCtx, call.deltas, 0)
        upto == ApplyDeltas(PreCtx, SubSeq(call.deltas, 1, k))
    IN  (Returned("applyDeltas") /\ k < Len(call.deltas))
        => /\ threw
           /\ lines = upto.lines
           /\ events = upto.ev

RECURSIVE Mirror(_, _)
\* the copy a subscriber keeps: the splice primitive applied to its own
\* lines for each delta of ds in order; [lines, err] as SpliceDelta
Mirror(ls, ds) ==
    IF Len(ds) = 0 THEN [lines |-> ls, err |-> FALSE]
    ELSE LET r == SpliceDelta(ls, ds[1], FALSE)
         IN  IF r.err THEN r ELSE Mirror(r.lines, Tail(ds))

\* C23: when the outermost applyDelta has returned, the mirror that the
\* subscriber registered second builds from the deltas it received, in the
\* order it received them, equals the lines of the document, also when the
\* subscriber registered first applied a further delta from inside its
\* handler; and it received the deltas in the order in which they changed
\* the lines.
C23_MirrorFollows ==
    (Returned("applyDeltaSubscribed") /\ ~threw)
    => /\ ~Mirror(held.base, held.deltas).err
       /\ Mirror(held.base, held.deltas).lines = lines
       /\ held.deltas = DeltasOf(events)

====
